---- MODULE Spec2Model ----
(***************************************************************************)
(* Circulation core of the Library Management System.                      *)
(*                                                                         *)
(* The model follows src/src/domains/Borrower.ts (classes Borrower and     *)
(* Library), src/src/models/BorrowingRecord.model.ts and the Book model.   *)
(* A Library owns three maps: books, users and borrowingRecords.  Dates    *)
(* are counted in ticks of the clock, DayLength ticks to the day;          *)
(* `new Date()` reads the variable now.  The lines                         *)
(* that sendDueDateReminders and Librarian.restrictBook write with         *)
(* console.log are kept in console.  calls holds the calls of              *)
(* processBorrowing that have made their checks and not yet their writes;  *)
(* it is used by SpecRace alone, every other specification runs each       *)
(* method to completion, as the single JavaScript thread does.             *)
(*                                                                         *)
(* Every method of Library returns or throws before it has changed         *)
(* anything.  For each method an operator gives the Error thrown in the    *)
(* current state ("none" when the call returns normally), and the action   *)
(* of a call that throws leaves every variable unchanged.  The methods of  *)
(* Borrower for the same events all throw; returnBook writes before it     *)
(* does.                                                                   *)
(*                                                                         *)
(* The descriptive fields of Book and Borrower (title, name, email, ...)   *)
(* other than the category of a Book, and the timestamps addedDate,        *)
(* lastModified, registrationDate and lastLogin are not read by any guard  *)
(* of the circulation code and are left out.                               *)
(***************************************************************************)
EXTENDS Integers, Sequences, FiniteSets, TLC

VARIABLES books, users, borrowingRecords, now, console, calls

vars == <<books, users, borrowingRecords, now, console, calls>>

(***************************************************************************)
(* Bounds of the model.                                                    *)
(***************************************************************************)
MaxBookId == 2
MaxUsers == 2
MaxReturned == 1
MaxTime == 1
MaxShelfBookId == 4
MaxShelfUsers == 1
MaxStaffBookId == 1
MaxDueBookId == 2
MaxDueUsers == 1
MaxDueTime == 2
MaxReminderBookId == 1
MaxConsole == 2
MaxStatusBookId == 2
MaxAccountBookId == 2
MaxAccountUsers == 2
MaxRaceBookId == 4
MaxRaceUsers == 1
MaxCallers == 2
DayLength == 2

BookIds == 1..MaxBookId
UserIds == 1..MaxUsers
ShelfBookIds == 1..MaxShelfBookId
ShelfUserIds == 1..MaxShelfUsers
StaffBookIds == 1..MaxStaffBookId
DueBookIds == 1..MaxDueBookId
DueUserIds == 1..MaxDueUsers
ReminderBookIds == 1..MaxReminderBookId
StatusBookIds == 1..MaxStatusBookId
AccountBookIds == 1..MaxAccountBookId
AccountUserIds == 1..MaxAccountUsers
RaceBookIds == 1..MaxRaceBookId
RaceUserIds == 1..MaxRaceUsers
Callers == 1..MaxCallers

(***************************************************************************)
(* Program constants.                                                      *)
(***************************************************************************)
\* this.maxBooksAllowed = 3 in the constructor of Borrower
DefaultMaxBooksAllowed == 3
\* TIME_POLICIES.DEFAULT_BORROWING_PERIOD, in days
DEFAULT_BORROWING_PERIOD == 14
\* BORROWING_POLICIES.MAX_EXTENSION_COUNT
MAX_EXTENSION_COUNT == 1
\* TIME_POLICIES.REFERENCE_BORROWING_PERIOD, in days
REFERENCE_BORROWING_PERIOD == 7
\* TIME_POLICIES.REMINDER_DAYS_BEFORE_DUE
REMINDER_DAYS_BEFORE_DUE == {3, 1}

\* A DateTime | null field that holds null.
NoDate == -1

BorrowingStatus == {"active", "returned", "overdue", "extended", "cancelled", "reserved"}

PhysicalState == {"excellent", "good", "fair", "poor", "damaged", "lost", "in_repair"}

\* The values of BookCategory that the model gives to a book: one of the
\* ordinary categories and REFERENCE.
BookCategory == {"fiction", "reference"}

(***************************************************************************)
(* Helpers on sequences and maps.                                          *)
(***************************************************************************)
Range(s) == {s[i] : i \in DOMAIN s}

\* Array.prototype.filter((id) => id !== x)
RECURSIVE FilterOut(_, _)
FilterOut(s, x) ==
    IF s = <<>> THEN <<>>
    ELSE IF Head(s) = x THEN FilterOut(Tail(s), x)
         ELSE <<Head(s)>> \o FilterOut(Tail(s), x)

\* Math.ceil(a / b), for b > 0
Ceil(a, b) == -((-a) \div b)

\* Map.delete(k)
MapDelete(m, k) == [x \in (DOMAIN m) \ {k} |-> m[x]]

\* Map.set(k, v)
MapSet(m, k, v) == [x \in (DOMAIN m) \cup {k} |-> IF x = k THEN v ELSE m[x]]

(***************************************************************************)
(* Constructors.                                                           *)
(***************************************************************************)
\* new Book(..., category, ...)
NewBook(category) ==
    [category |-> category,
     isAvailable |-> TRUE,
     physicalState |-> "excellent",
     borrowingHistory |-> <<>>,
     isRestricted |-> FALSE]

\* new Borrower(...)
NewBorrower ==
    [isAuthorized |-> FALSE,
     isActiveStatus |-> TRUE,
     suspensionEndDate |-> NoDate,
     borrowedBooks |-> <<>>,
     borrowingHistory |-> <<>>,
     maxBooksAllowed |-> DefaultMaxBooksAllowed]

\* calculateDueDate with the period of the REFERENCE category.
calculateDueDate_referencePeriod(borrowDate) ==
    borrowDate + REFERENCE_BORROWING_PERIOD * DayLength

\* Library.calculateDueDate(borrowDate): setDate(getDate() + period in days)
calculateDueDate(borrowDate) == borrowDate + DEFAULT_BORROWING_PERIOD * DayLength

\* new BorrowingRecord(id, bookId, borrowerId, borrowDate, dueDate); the id
\* of a record is its position in the ledger.
NewBorrowingRecord(bookId, borrowerId, borrowDate, dueDate) ==
    [bookId |-> bookId,
     borrowerId |-> borrowerId,
     borrowDate |-> borrowDate,
     dueDate |-> dueDate,
     returnDate |-> NoDate,
     isExtended |-> FALSE,
     extensionCount |-> 0,
     status |-> "active"]

\* Borrower.isSuspended() of user u
isSuspended(u) ==
    IF users[u].suspensionEndDate = NoDate THEN FALSE
    ELSE now < users[u].suspensionEndDate

\* Borrower.canBorrow() of user u.  The middle conjunct of the code is
\* `this.isActive`, the method itself and not a call of it: a function
\* object, which is truthy whatever the account.
canBorrow(u) ==
    /\ Len(users[u].borrowedBooks) < users[u].maxBooksAllowed
    /\ TRUE
    /\ ~isSuspended(u)

\* The records of the ledger whose status is s.
RecordsWithStatus(s) == {i \in DOMAIN borrowingRecords : borrowingRecords[i].status = s}

\* A caller that is not inside processBorrowing.
IdleCall == [pc |-> "idle", bookId |-> 0, borrowerId |-> 0]

(***************************************************************************)
(* new Library(...): empty maps.                                           *)
(***************************************************************************)
Init ==
    /\ books = <<>>
    /\ users = <<>>
    /\ borrowingRecords = <<>>
    /\ now = 0
    /\ console = <<>>
    /\ calls = [c \in Callers |-> IdleCall]

(***************************************************************************)
(* Library.addBook(book), with a book fresh from its constructor.          *)
(***************************************************************************)
addBookError(bookId) ==
    IF bookId \in DOMAIN books THEN "BookAlreadyExists" ELSE "none"

addBookOutcome(bookId, category) ==
    LET err == addBookError(bookId) IN
    [error |-> err,
     books |-> IF err = "none" THEN MapSet(books, bookId, NewBook(category)) ELSE books,
     users |-> users,
     borrowingRecords |-> borrowingRecords]

addBook(bookId, category) ==
    LET out == addBookOutcome(bookId, category) IN
    /\ books' = out.books
    /\ UNCHANGED <<users, borrowingRecords, now, console, calls>>

(***************************************************************************)
(* Library.removeBook(bookId)                                              *)
(***************************************************************************)
\* removeBookError without the check of book.isAvailable.
removeBookError_noAvailabilityCheck(bookId) ==
    IF bookId \notin DOMAIN books THEN "BookNotFound" ELSE "none"

removeBookError(bookId) ==
    IF bookId \notin DOMAIN books THEN "BookNotFound"
    ELSE IF ~books[bookId].isAvailable THEN "BookCurrentlyBorrowed"
    ELSE "none"

\* removeBookOutcome of a removal that takes the records of the book out of
\* the ledger with it.
removeBookOutcome_deletesRecords(bookId) ==
    LET err == removeBookError(bookId) IN
    [error |-> err,
     books |-> IF err = "none" THEN MapDelete(books, bookId) ELSE books,
     users |-> users,
     borrowingRecords |->
         IF err = "none"
         THEN SelectSeq(borrowingRecords, LAMBDA record : record.bookId # bookId)
         ELSE borrowingRecords]

\* What the call leaves behind: this.books.delete(bookId) and nothing else.
removeBookOutcome(bookId) ==
    LET err == removeBookError(bookId) IN
    [error |-> err,
     books |-> IF err = "none" THEN MapDelete(books, bookId) ELSE books,
     users |-> users,
     borrowingRecords |-> borrowingRecords]

removeBook(bookId) ==
    LET out == removeBookOutcome(bookId) IN
    /\ books' = out.books
    /\ users' = out.users
    /\ borrowingRecords' = out.borrowingRecords
    /\ UNCHANGED <<now, console, calls>>

(***************************************************************************)
(* Library.registerUser(userData): the uuid of the new user is the next    *)
(* free number.                                                            *)
(***************************************************************************)
registerUser(maxUsers) ==
    /\ Len(users) < maxUsers
    /\ users' = Append(users, NewBorrower)
    /\ UNCHANGED <<books, borrowingRecords, now, console, calls>>

(***************************************************************************)
(* Library.processBorrowing(bookId, borrowerId)                            *)
(***************************************************************************)
\* BorrowingError without the check of book.isAvailable.
BorrowingError_noAvailabilityCheck(bookId, borrowerId) ==
    IF bookId \notin DOMAIN books THEN "BookNotFound"
    ELSE IF borrowerId \notin DOMAIN users THEN "UserNotFound"
    ELSE IF books[bookId].isRestricted THEN "BookRestricted"
    ELSE IF ~users[borrowerId].isAuthorized THEN "BorrowerNotAuthorized"
    ELSE IF Len(users[borrowerId].borrowedBooks) >= users[borrowerId].maxBooksAllowed
         THEN "MaxBooksLimitReached"
    ELSE "none"

\* BorrowingError with the limit compared by > where the code has >=.
BorrowingError_limitOffByOne(bookId, borrowerId) ==
    IF bookId \notin DOMAIN books THEN "BookNotFound"
    ELSE IF borrowerId \notin DOMAIN users THEN "UserNotFound"
    ELSE IF ~books[bookId].isAvailable THEN "BookNotAvailable"
    ELSE IF books[bookId].isRestricted THEN "BookRestricted"
    ELSE IF ~users[borrowerId].isAuthorized THEN "BorrowerNotAuthorized"
    ELSE IF Len(users[borrowerId].borrowedBooks) > users[borrowerId].maxBooksAllowed
         THEN "MaxBooksLimitReached"
    ELSE "none"

\* The checks made before anything is changed, in the order of the code:
\* getBook, getUser, then the four throw statements.
BorrowingError(bookId, borrowerId) ==
    IF bookId \notin DOMAIN books THEN "BookNotFound"
    ELSE IF borrowerId \notin DOMAIN users THEN "UserNotFound"
    ELSE IF ~books[bookId].isAvailable THEN "BookNotAvailable"
    ELSE IF books[bookId].isRestricted THEN "BookRestricted"
    ELSE IF ~users[borrowerId].isAuthorized THEN "BorrowerNotAuthorized"
    ELSE IF Len(users[borrowerId].borrowedBooks) >= users[borrowerId].maxBooksAllowed
         THEN "MaxBooksLimitReached"
    ELSE "none"

\* The book after a successful borrowing that created record recordId.
BorrowedBook(book, recordId) ==
    [book EXCEPT !.isAvailable = FALSE,
                 !.borrowingHistory = Append(@, recordId)]

\* BorrowingBorrower without borrowedBooks.push(bookId).
BorrowingBorrower_historyOnly(borrower, bookId, recordId) ==
    [borrower EXCEPT !.borrowingHistory = Append(@, recordId)]

\* The borrower after a successful borrowing of bookId.
BorrowingBorrower(borrower, bookId, recordId) ==
    [borrower EXCEPT !.borrowedBooks = Append(@, bookId),
                     !.borrowingHistory = Append(@, recordId)]

\* processBorrowingOutcome with book.isAvailable = false moved up, between
\* the checks of the book and the checks of the borrower.
processBorrowingOutcome_marksBookEarly(bookId, borrowerId) ==
    LET err == BorrowingError(bookId, borrowerId)
        recordId == Len(borrowingRecords) + 1
        record == NewBorrowingRecord(bookId, borrowerId, now, calculateDueDate(now))
    IN  IF err \in {"BorrowerNotAuthorized", "MaxBooksLimitReached"}
        THEN [error |-> err,
              books |-> [books EXCEPT ![bookId].isAvailable = FALSE],
              users |-> users,
              borrowingRecords |-> borrowingRecords]
        ELSE IF err # "none"
        THEN [error |-> err, books |-> books, users |-> users,
              borrowingRecords |-> borrowingRecords]
        ELSE [error |-> "none",
              books |-> [books EXCEPT ![bookId] = BorrowedBook(@, recordId)],
              users |-> [users EXCEPT ![borrowerId] =
                                          BorrowingBorrower(@, bookId, recordId)],
              borrowingRecords |-> Append(borrowingRecords, record)]

\* What the call leaves behind: the Error thrown and the three maps.
processBorrowingOutcome(bookId, borrowerId) ==
    LET err == BorrowingError(bookId, borrowerId)
        borrowDate == now
        dueDate == calculateDueDate(borrowDate)
        recordId == Len(borrowingRecords) + 1
        record == NewBorrowingRecord(bookId, borrowerId, borrowDate, dueDate)
    IN  IF err # "none"
        THEN [error |-> err, books |-> books, users |-> users,
              borrowingRecords |-> borrowingRecords]
        ELSE [error |-> "none",
              books |-> [books EXCEPT ![bookId] = BorrowedBook(@, recordId)],
              users |-> [users EXCEPT ![borrowerId] =
                                          BorrowingBorrower(@, bookId, recordId)],
              borrowingRecords |-> Append(borrowingRecords, record)]

processBorrowing(bookId, borrowerId) ==
    LET out == processBorrowingOutcome(bookId, borrowerId) IN
    /\ books' = out.books
    /\ users' = out.users
    /\ borrowingRecords' = out.borrowingRecords
    /\ UNCHANGED <<now, console, calls>>

(***************************************************************************)
(* Library.processBorrowing(bookId, borrowerId) run by caller c in two     *)
(* steps, with the other callers free to run between them: the checks      *)
(* (getBook, getUser and the four throw statements), then the writes.      *)
(***************************************************************************)
processBorrowingCheck(c, bookId, borrowerId) ==
    /\ calls[c].pc = "idle"
    /\ calls' = IF BorrowingError(bookId, borrowerId) = "none"
                THEN [calls EXCEPT ![c] = [pc |-> "checked", bookId |-> bookId,
                                                  borrowerId |-> borrowerId]]
                ELSE calls
    /\ UNCHANGED <<books, users, borrowingRecords, now, console>>

\* The writes use the book and the borrower that the checks looked up, and
\* check nothing again.
processBorrowingWrite(c) ==
    LET bookId == calls[c].bookId
        borrowerId == calls[c].borrowerId
        borrowDate == now
        dueDate == calculateDueDate(borrowDate)
        recordId == Len(borrowingRecords) + 1
        record == NewBorrowingRecord(bookId, borrowerId, borrowDate, dueDate)
    IN  /\ calls[c].pc = "checked"
        /\ books' = [books EXCEPT ![bookId] = BorrowedBook(@, recordId)]
        /\ users' = [users EXCEPT ![borrowerId] = BorrowingBorrower(@, bookId, recordId)]
        /\ borrowingRecords' = Append(borrowingRecords, record)
        /\ calls' = [calls EXCEPT ![c] = IdleCall]
        /\ UNCHANGED <<now, console>>

(***************************************************************************)
(* Library.processReturn(bookId, borrowerId)                               *)
(***************************************************************************)
\* findActiveRecord with the comparison of record.borrowerId left out.
findActiveRecord_anyBorrower(bookId, borrowerId) ==
    LET found == {i \in DOMAIN borrowingRecords :
                     /\ borrowingRecords[i].bookId = bookId
                     /\ borrowingRecords[i].status = "active"}
    IN  IF found = {} THEN 0
        ELSE CHOOSE i \in found : \A j \in found : i <= j

\* findActiveRecord with the comparison of record.status left out.
findActiveRecord_anyStatus(bookId, borrowerId) ==
    LET found == {i \in DOMAIN borrowingRecords :
                     /\ borrowingRecords[i].bookId = bookId
                     /\ borrowingRecords[i].borrowerId = borrowerId}
    IN  IF found = {} THEN 0
        ELSE CHOOSE i \in found : \A j \in found : i <= j

\* Array.from(borrowingRecords.values()).find(...): the first record of this
\* book and this borrower whose status is ACTIVE, 0 when find gives undefined.
findActiveRecord(bookId, borrowerId) ==
    LET found == {i \in DOMAIN borrowingRecords :
                     /\ borrowingRecords[i].bookId = bookId
                     /\ borrowingRecords[i].borrowerId = borrowerId
                     /\ borrowingRecords[i].status = "active"}
    IN  IF found = {} THEN 0
        ELSE CHOOSE i \in found : \A j \in found : i <= j

\* ReturnError with the account checked as processBorrowing checks it, and
\* its suspension with it.
ReturnError_checksAccount(bookId, borrowerId) ==
    IF bookId \notin DOMAIN books THEN "BookNotFound"
    ELSE IF borrowerId \notin DOMAIN users THEN "UserNotFound"
    ELSE IF ~users[borrowerId].isAuthorized \/ isSuspended(borrowerId)
         THEN "BorrowerNotAuthorized"
    ELSE IF findActiveRecord(bookId, borrowerId) = 0 THEN "NoActiveRecord"
    ELSE "none"

\* getBook, getUser, and the throw when find gives undefined.
ReturnError(bookId, borrowerId) ==
    IF bookId \notin DOMAIN books THEN "BookNotFound"
    ELSE IF borrowerId \notin DOMAIN users THEN "UserNotFound"
    ELSE IF findActiveRecord(bookId, borrowerId) = 0 THEN "NoActiveRecord"
    ELSE "none"

\* The record after its return.
ReturnedRecord(record) ==
    [record EXCEPT !.returnDate = now, !.status = "returned"]

\* ReturnedBook without book.isAvailable = true.
ReturnedBook_staysUnavailable(book) == book

\* The book after its return.
ReturnedBook(book) == [book EXCEPT !.isAvailable = TRUE]

\* ReturningBorrower without the filter of borrowedBooks.
ReturningBorrower_keepsBook(borrower, bookId) == borrower

\* The borrower after the return of bookId.
ReturningBorrower(borrower, bookId) ==
    [borrower EXCEPT !.borrowedBooks = FilterOut(@, bookId)]

processReturnOutcome(bookId, borrowerId) ==
    LET err == ReturnError(bookId, borrowerId)
        activeRecord == findActiveRecord(bookId, borrowerId)
    IN  IF err # "none"
        THEN [error |-> err, books |-> books, users |-> users,
              borrowingRecords |-> borrowingRecords]
        ELSE [error |-> "none",
              books |-> [books EXCEPT ![bookId] = ReturnedBook(@)],
              users |-> [users EXCEPT ![borrowerId] = ReturningBorrower(@, bookId)],
              borrowingRecords |->
                  [borrowingRecords EXCEPT ![activeRecord] = ReturnedRecord(@)]]

processReturn(bookId, borrowerId) ==
    LET out == processReturnOutcome(bookId, borrowerId) IN
    /\ out.error = "none" => Cardinality(RecordsWithStatus("returned")) < MaxReturned
    /\ books' = out.books
    /\ users' = out.users
    /\ borrowingRecords' = out.borrowingRecords
    /\ UNCHANGED <<now, console, calls>>

(***************************************************************************)
(* FeeCalculator.calculateLateFee(daysOverdue) of the policy guide, with   *)
(* FEE_POLICIES.  Amounts are counted in half euros.  No method of Library *)
(* calls it.                                                               *)
(***************************************************************************)
LATE_FEE_PER_DAY == 1
MAX_LATE_FEE == 100
LATE_FEE_GRACE_PERIOD == 1

calculateLateFee(daysOverdue) ==
    IF daysOverdue <= LATE_FEE_GRACE_PERIOD THEN 0
    ELSE LET fee == (daysOverdue - LATE_FEE_GRACE_PERIOD) * LATE_FEE_PER_DAY
         IN  IF fee < MAX_LATE_FEE THEN fee ELSE MAX_LATE_FEE

(***************************************************************************)
(* Library.getOverdueBorrowings()                                          *)
(***************************************************************************)
\* OverdueRecords with the tests of record.status and record.returnDate
\* left out.
OverdueRecords_ignoresReturn(records, today) ==
    SelectSeq([i \in 1..Len(records) |-> i], LAMBDA i : records[i].dueDate < today)

\* Array.from(records.values()).filter(...): the ids of the records that
\* pass the test, in the order of the ledger.
OverdueRecords(records, today) ==
    SelectSeq([i \in 1..Len(records) |-> i],
              LAMBDA i : /\ records[i].status = "active"
                         /\ records[i].dueDate < today
                         /\ records[i].returnDate = NoDate)

\* getOverdueBorrowingsOutcome of a scan that writes OVERDUE into the
\* records it returns.
getOverdueBorrowingsOutcome_marksOverdue(records, today) ==
    [error |-> "none",
     result |-> OverdueRecords(records, today),
     borrowingRecords |->
         [i \in 1..Len(records) |->
             IF i \in Range(OverdueRecords(records, today))
             THEN [records[i] EXCEPT !.status = "overdue"]
             ELSE records[i]]]

\* What the call on a ledger records at date today leaves behind: the array
\* it returns and the ledger, which it only reads.
getOverdueBorrowingsOutcome(records, today) ==
    [error |-> "none",
     result |-> OverdueRecords(records, today),
     borrowingRecords |-> records]

getOverdueBorrowings ==
    LET out == getOverdueBorrowingsOutcome(borrowingRecords, now) IN
    /\ borrowingRecords' = out.borrowingRecords
    /\ UNCHANGED <<books, users, now, console, calls>>

(***************************************************************************)
(* Library.sendDueDateReminders()                                          *)
(***************************************************************************)
\* daysUntilDue with Math.floor where the code has Math.ceil.
daysUntilDue_floor(record, today) == (record.dueDate - today) \div DayLength

\* Math.ceil((dueDate - now) / (1000 * 60 * 60 * 24))
daysUntilDue(record, today) == Ceil(record.dueDate - today, DayLength)

\* The lines written by one run, in the order of the ledger.  A line reads
\* daysUntilDue and record.borrowerId; recordId is the record it was
\* written for.
ReminderLines(records, today) ==
    LET reminded == SelectSeq([i \in 1..Len(records) |-> i],
                        LAMBDA i : /\ ~(records[i].status # "active"
                                        \/ records[i].returnDate # NoDate)
                                   /\ daysUntilDue(records[i], today)
                                          \in REMINDER_DAYS_BEFORE_DUE)
    IN  [k \in 1..Len(reminded) |->
            [recordId |-> reminded[k],
             daysUntilDue |-> daysUntilDue(records[reminded[k]], today),
             borrowerId |-> records[reminded[k]].borrowerId]]

sendDueDateReminders ==
    LET lines == ReminderLines(borrowingRecords, now) IN
    /\ Len(console) + Len(lines) <= MaxConsole
    /\ console' = console \o lines
    /\ UNCHANGED <<books, users, borrowingRecords, now, calls>>

(***************************************************************************)
(* Borrower.extendBorrowingPeriod(bookId, days), called on user            *)
(* borrowerId.                                                             *)
(***************************************************************************)
extendBorrowingPeriodError(borrowerId, bookId) ==
    IF bookId \notin Range(users[borrowerId].borrowedBooks)
    THEN "BookNotBorrowedByUser"
    ELSE "ExtensionNotIntegrated"

\* The method throws on both of its paths: it returns no boolean ("true" or
\* "false") and writes nothing.
extendBorrowingPeriodOutcome(borrowerId, bookId, days) ==
    [error |-> extendBorrowingPeriodError(borrowerId, bookId),
     result |-> "none",
     books |-> books,
     users |-> users,
     borrowingRecords |-> borrowingRecords]

extendBorrowingPeriod(borrowerId, bookId, days) ==
    LET out == extendBorrowingPeriodOutcome(borrowerId, bookId, days) IN
    /\ borrowerId \in DOMAIN users
    /\ books' = out.books
    /\ users' = out.users
    /\ borrowingRecords' = out.borrowingRecords
    /\ UNCHANGED <<now, console, calls>>

(***************************************************************************)
(* Borrower.borrowBook(bookId), called on user borrowerId.                 *)
(***************************************************************************)
borrowBookError(borrowerId, bookId) ==
    IF ~canBorrow(borrowerId) THEN "CannotBorrow"
    ELSE IF ~users[borrowerId].isAuthorized THEN "AccountNotAuthorized"
    ELSE "BorrowingNotIntegrated"

\* The method throws on each of its paths and writes nothing.
borrowBookOutcome(borrowerId, bookId) ==
    [error |-> borrowBookError(borrowerId, bookId),
     books |-> books,
     users |-> users,
     borrowingRecords |-> borrowingRecords]

borrowBook(borrowerId, bookId) ==
    LET out == borrowBookOutcome(borrowerId, bookId) IN
    /\ borrowerId \in DOMAIN users
    /\ books' = out.books
    /\ users' = out.users
    /\ borrowingRecords' = out.borrowingRecords
    /\ UNCHANGED <<now, console, calls>>

(***************************************************************************)
(* Borrower.returnBook(bookId), called on user borrowerId.                 *)
(***************************************************************************)
returnBookError(borrowerId, bookId) ==
    IF bookId \notin Range(users[borrowerId].borrowedBooks)
    THEN "BookNotBorrowedByUser"
    ELSE "ReturnNotIntegrated"

\* users[borrowerId].borrowedBooks after the call: when the book is in the
\* list the method filters it out, and throws after that.
returnBookBorrowedBooks(borrowerId, bookId) ==
    IF bookId \notin Range(users[borrowerId].borrowedBooks)
    THEN users[borrowerId].borrowedBooks
    ELSE FilterOut(users[borrowerId].borrowedBooks, bookId)

\* The method throws on both of its paths.
returnBookOutcome(borrowerId, bookId) ==
    [error |-> returnBookError(borrowerId, bookId),
     books |-> books,
     users |-> [users EXCEPT ![borrowerId].borrowedBooks =
                                 returnBookBorrowedBooks(borrowerId, bookId)],
     borrowingRecords |-> borrowingRecords]

returnBook(borrowerId, bookId) ==
    LET out == returnBookOutcome(borrowerId, bookId) IN
    /\ borrowerId \in DOMAIN users
    /\ books' = out.books
    /\ users' = out.users
    /\ borrowingRecords' = out.borrowingRecords
    /\ UNCHANGED <<now, console, calls>>

(***************************************************************************)
(* Librarian.restrictBook(bookId, reason)                                  *)
(***************************************************************************)
restrictBookError(bookId, reason) ==
    IF reason = "" THEN "RestrictionReasonRequired" ELSE "none"

\* With a reason the method writes one line with console.log and returns:
\* it reads no Book and assigns no field.
restrictBookOutcome(bookId, reason) ==
    [error |-> restrictBookError(bookId, reason),
     books |-> books,
     users |-> users,
     borrowingRecords |-> borrowingRecords,
     console |-> IF restrictBookError(bookId, reason) = "none"
                 THEN Append(console, [bookId |-> bookId, reason |-> reason])
                 ELSE console]

restrictBook(bookId, reason) ==
    LET out == restrictBookOutcome(bookId, reason) IN
    /\ Len(out.console) <= MaxConsole
    /\ books' = out.books
    /\ users' = out.users
    /\ borrowingRecords' = out.borrowingRecords
    /\ console' = out.console
    /\ UNCHANGED <<now, calls>>

(***************************************************************************)
(* Writes to the public fields of a Borrower and of a Book.  The methods   *)
(* of Librarian that stand for these staff actions only log; the fields    *)
(* are assigned directly, as the test suites do.  The test suites also     *)
(* assign dueDate and status of a BorrowingRecord.                         *)
(***************************************************************************)
\* borrower.isAuthorized = value
setIsAuthorized(userId, value) ==
    /\ userId \in DOMAIN users
    /\ users[userId].isAuthorized # value
    /\ users' = [users EXCEPT ![userId].isAuthorized = value]
    /\ UNCHANGED <<books, borrowingRecords, now, console, calls>>

\* borrower.suspensionEndDate = date
setSuspensionEndDate(userId, date) ==
    /\ userId \in DOMAIN users
    /\ users[userId].suspensionEndDate # date
    /\ users' = [users EXCEPT ![userId].suspensionEndDate = date]
    /\ UNCHANGED <<books, borrowingRecords, now, console, calls>>

\* book.isRestricted = value
setIsRestricted(bookId, value) ==
    /\ bookId \in DOMAIN books
    /\ books[bookId].isRestricted # value
    /\ books' = [books EXCEPT ![bookId].isRestricted = value]
    /\ UNCHANGED <<users, borrowingRecords, now, console, calls>>

\* book.physicalState = state
setPhysicalState(bookId, state) ==
    /\ bookId \in DOMAIN books
    /\ books[bookId].physicalState # state
    /\ books' = [books EXCEPT ![bookId].physicalState = state]
    /\ UNCHANGED <<users, borrowingRecords, now, console, calls>>

\* record.dueDate = date, on a record that is ACTIVE
setDueDate(recordId, date) ==
    /\ recordId \in DOMAIN borrowingRecords
    /\ borrowingRecords[recordId].status = "active"
    /\ borrowingRecords[recordId].dueDate # date
    /\ borrowingRecords' = [borrowingRecords EXCEPT ![recordId].dueDate = date]
    /\ UNCHANGED <<books, users, now, console, calls>>

\* record.status = status, on a record that is ACTIVE
setStatus(recordId, status) ==
    /\ recordId \in DOMAIN borrowingRecords
    /\ borrowingRecords[recordId].status = "active"
    /\ borrowingRecords' = [borrowingRecords EXCEPT ![recordId].status = status]
    /\ UNCHANGED <<books, users, now, console, calls>>

(***************************************************************************)
(* The clock: a tick passes.                                               *)
(***************************************************************************)
Tick(maxTime) ==
    /\ now < maxTime
    /\ now' = now + 1
    /\ UNCHANGED <<books, users, borrowingRecords, console, calls>>

(***************************************************************************)
(* Spec: the operations of the Library on a small catalogue with two       *)
(* accounts, the authorization of accounts and the clock.                  *)
(***************************************************************************)
Next ==
    \/ \E bookId \in BookIds : addBook(bookId, "fiction")
    \/ \E bookId \in BookIds : removeBook(bookId)
    \/ registerUser(MaxUsers)
    \/ \E bookId \in BookIds, borrowerId \in UserIds : processBorrowing(bookId, borrowerId)
    \/ \E bookId \in BookIds, borrowerId \in UserIds : processReturn(bookId, borrowerId)
    \/ \E userId \in UserIds, value \in BOOLEAN : setIsAuthorized(userId, value)
    \/ Tick(MaxTime)

Spec == Init /\ [][Next]_vars

(***************************************************************************)
(* SpecShelf: the same operations, without the clock, on a catalogue       *)
(* large enough for an account to reach its loan cap.                      *)
(***************************************************************************)
NextShelf ==
    \/ \E bookId \in ShelfBookIds : addBook(bookId, "fiction")
    \/ \E bookId \in ShelfBookIds : removeBook(bookId)
    \/ registerUser(MaxShelfUsers)
    \/ \E bookId \in ShelfBookIds, borrowerId \in ShelfUserIds :
          processBorrowing(bookId, borrowerId)
    \/ \E bookId \in ShelfBookIds, borrowerId \in ShelfUserIds :
          processReturn(bookId, borrowerId)
    \/ \E userId \in ShelfUserIds, value \in BOOLEAN : setIsAuthorized(userId, value)

SpecShelf == Init /\ [][NextShelf]_vars

(***************************************************************************)
(* SpecStaff: the operations of Spec together with the staff's other       *)
(* writes: suspension, restriction and physical state.                     *)
(***************************************************************************)
\* The dates a suspension is set to end on: never in the past.
SuspensionEndDates == {NoDate} \cup {d \in 1..MaxTime : d > now}

\* The physical states the staff writes.
WrittenPhysicalStates == {"poor", "damaged", "lost", "in_repair"}

\* The reasons given for a restriction: none, and one.
RestrictionReasons == {"", "Damaged cover"}

NextStaff ==
    \/ \E bookId \in StaffBookIds : addBook(bookId, "fiction")
    \/ \E bookId \in StaffBookIds : removeBook(bookId)
    \/ registerUser(MaxUsers)
    \/ \E bookId \in StaffBookIds, borrowerId \in UserIds :
          processBorrowing(bookId, borrowerId)
    \/ \E bookId \in StaffBookIds, borrowerId \in UserIds :
          processReturn(bookId, borrowerId)
    \/ \E userId \in UserIds, value \in BOOLEAN : setIsAuthorized(userId, value)
    \/ \E userId \in UserIds, date \in SuspensionEndDates :
          setSuspensionEndDate(userId, date)
    \/ \E bookId \in StaffBookIds, value \in BOOLEAN : setIsRestricted(bookId, value)
    \/ \E bookId \in StaffBookIds, reason \in RestrictionReasons :
          restrictBook(bookId, reason)
    \/ \E bookId \in StaffBookIds, state \in WrittenPhysicalStates :
          setPhysicalState(bookId, state)
    \/ Tick(MaxTime)

SpecStaff == Init /\ [][NextStaff]_vars

(***************************************************************************)
(* SpecDue: borrowing and return of books of two categories, the written   *)
(* due dates and the scan for overdue records.                             *)
(***************************************************************************)
\* The dates written into dueDate: the tick before now and the tick after,
\* and not before tick 0.
WrittenDueDates == {d \in {now - 1, now + 1} : d >= 0}

NextDue ==
    \/ \E bookId \in DueBookIds, category \in BookCategory : addBook(bookId, category)
    \/ registerUser(MaxDueUsers)
    \/ \E userId \in DueUserIds, value \in BOOLEAN : setIsAuthorized(userId, value)
    \/ \E bookId \in DueBookIds, borrowerId \in DueUserIds :
          processBorrowing(bookId, borrowerId)
    \/ \E bookId \in DueBookIds, borrowerId \in DueUserIds :
          processReturn(bookId, borrowerId)
    \/ \E recordId \in DOMAIN borrowingRecords, date \in WrittenDueDates :
          setDueDate(recordId, date)
    \/ getOverdueBorrowings
    \/ Tick(MaxDueTime)

SpecDue == Init /\ [][NextDue]_vars

(***************************************************************************)
(* SpecReminders: borrowing and return of one book, the written due dates  *)
(* and the runs of the reminders.                                          *)
(***************************************************************************)
\* The dates written into dueDate before a run of the reminders: one, two
\* and three days from now.
WrittenReminderDueDates == {now + days * DayLength : days \in 1..3}

NextReminders ==
    \/ \E bookId \in ReminderBookIds : addBook(bookId, "fiction")
    \/ registerUser(MaxDueUsers)
    \/ \E userId \in DueUserIds, value \in BOOLEAN : setIsAuthorized(userId, value)
    \/ \E bookId \in ReminderBookIds, borrowerId \in DueUserIds :
          processBorrowing(bookId, borrowerId)
    \/ \E bookId \in ReminderBookIds, borrowerId \in DueUserIds :
          processReturn(bookId, borrowerId)
    \/ \E recordId \in DOMAIN borrowingRecords, date \in WrittenReminderDueDates :
          setDueDate(recordId, date)
    \/ sendDueDateReminders
    \/ Tick(MaxDueTime)

SpecReminders == Init /\ [][NextReminders]_vars

(***************************************************************************)
(* SpecStatus: borrowing, return and extension together with the written   *)
(* statuses of a record.                                                   *)
(***************************************************************************)
\* The statuses written into an ACTIVE record.
WrittenStatuses == {"overdue", "extended", "cancelled"}

\* The numbers of days asked for: MIN_EXTENSION_DAYS and MAX_EXTENSION_DAYS.
ExtensionDays == {3, 7}

NextStatus ==
    \/ \E bookId \in StatusBookIds : addBook(bookId, "fiction")
    \/ \E bookId \in StatusBookIds : removeBook(bookId)
    \/ registerUser(MaxUsers)
    \/ \E userId \in UserIds, value \in BOOLEAN : setIsAuthorized(userId, value)
    \/ \E bookId \in StatusBookIds, borrowerId \in UserIds :
          processBorrowing(bookId, borrowerId)
    \/ \E bookId \in StatusBookIds, borrowerId \in UserIds :
          processReturn(bookId, borrowerId)
    \/ \E recordId \in DOMAIN borrowingRecords, status \in WrittenStatuses :
          setStatus(recordId, status)
    \/ \E borrowerId \in UserIds, bookId \in StatusBookIds, days \in ExtensionDays :
          extendBorrowingPeriod(borrowerId, bookId, days)
    \/ Tick(MaxTime)

SpecStatus == Init /\ [][NextStatus]_vars

(***************************************************************************)
(* SpecAccount: the methods of Library together with the methods a         *)
(* Borrower offers for the same events, on accounts that are authorized    *)
(* and suspended.                                                          *)
(***************************************************************************)
NextAccount ==
    \/ \E bookId \in AccountBookIds : addBook(bookId, "fiction")
    \/ registerUser(MaxAccountUsers)
    \/ \E userId \in AccountUserIds, value \in BOOLEAN : setIsAuthorized(userId, value)
    \/ \E userId \in AccountUserIds, date \in SuspensionEndDates :
          setSuspensionEndDate(userId, date)
    \/ \E bookId \in AccountBookIds, borrowerId \in AccountUserIds :
          processBorrowing(bookId, borrowerId)
    \/ \E bookId \in AccountBookIds, borrowerId \in AccountUserIds :
          processReturn(bookId, borrowerId)
    \/ \E borrowerId \in AccountUserIds, bookId \in AccountBookIds :
          borrowBook(borrowerId, bookId)
    \/ \E borrowerId \in AccountUserIds, bookId \in AccountBookIds :
          returnBook(borrowerId, bookId)
    \/ \E borrowerId \in AccountUserIds, bookId \in AccountBookIds, days \in ExtensionDays :
          extendBorrowingPeriod(borrowerId, bookId, days)
    \/ Tick(MaxTime)

SpecAccount == Init /\ [][NextAccount]_vars

(***************************************************************************)
(* SpecRace: two callers of processBorrowing whose checks and writes       *)
(* interleave, on a catalogue large enough for an account to pass its      *)
(* loan cap.                                                               *)
(***************************************************************************)
NextRace ==
    \/ \E bookId \in RaceBookIds : addBook(bookId, "fiction")
    \/ registerUser(MaxRaceUsers)
    \/ \E userId \in RaceUserIds, value \in BOOLEAN : setIsAuthorized(userId, value)
    \/ \E c \in Callers, bookId \in RaceBookIds, borrowerId \in RaceUserIds :
          processBorrowingCheck(c, bookId, borrowerId)
    \/ \E c \in Callers : processBorrowingWrite(c)

SpecRace == Init /\ [][NextRace]_vars

(***************************************************************************)
(* Vocabulary of the properties.                                           *)
(***************************************************************************)
\* The records of book bookId whose status is one of statuses.
RecordsOfBook(bookId, statuses) ==
    {i \in DOMAIN borrowingRecords :
        /\ borrowingRecords[i].bookId = bookId
        /\ borrowingRecords[i].status \in statuses}

\* The records of book bookId and borrower borrowerId whose status is one
\* of statuses.
RecordsOfPair(bookId, borrowerId, statuses) ==
    {i \in RecordsOfBook(bookId, statuses) :
        borrowingRecords[i].borrowerId = borrowerId}

\* How many times x occurs in the sequence s.
Occurrences(s, x) == Cardinality({i \in DOMAIN s : s[i] = x})

\* The ACTIVE records that name borrower borrowerId.
ActiveRecordsOf(borrowerId) ==
    {i \in RecordsWithStatus("active") : borrowingRecords[i].borrowerId = borrowerId}

\* The kind of a thrown Error: the code throws plain Errors, told apart by
\* their messages.
ErrorKind(err) ==
    CASE err \in {"BookNotFound", "UserNotFound", "NoActiveRecord"} -> "NotFound"
      [] err \in {"BookNotAvailable", "BookRestricted", "BookCurrentlyBorrowed"} -> "Conflict"
      [] err = "BorrowerNotAuthorized" -> "Unauthorized"
      [] err = "MaxBooksLimitReached" -> "LimitExceeded"
      [] err = "BookAlreadyExists" -> "DuplicateKey"
      [] OTHER -> "none"

\* The call leaves the three maps as they are.
LeavesAllUnchanged(out) ==
    /\ out.books = books
    /\ out.users = users
    /\ out.borrowingRecords = borrowingRecords

(***************************************************************************)
(* C1: for every book of the catalogue, isAvailable is false if and only   *)
(* if the ledger holds a record of this book whose status is ACTIVE or     *)
(* EXTENDED.                                                               *)
(***************************************************************************)
C1_AvailabilityMatchesLedger ==
    \A bookId \in DOMAIN books :
        (~books[bookId].isAvailable) <=> (RecordsOfBook(bookId, {"active", "extended"}) # {})

\* One book is out on loan while another one, borrowed and returned, is
\* available again.
C1_Witness ==
    \E b1 \in DOMAIN books, b2 \in DOMAIN books :
        /\ ~books[b1].isAvailable
        /\ RecordsOfBook(b1, {"active"}) # {}
        /\ books[b2].isAvailable
        /\ RecordsOfBook(b2, {"returned"}) # {}

(***************************************************************************)
(* C2: the ledger holds at most one ACTIVE or EXTENDED record per book,    *)
(* and while it holds one, a borrowing of this book by any account throws. *)
(***************************************************************************)
C2_SingleOpenLoanPerBook ==
    \A bookId \in BookIds :
        /\ Cardinality(RecordsOfBook(bookId, {"active", "extended"})) <= 1
        /\ RecordsOfBook(bookId, {"active", "extended"}) # {} =>
              \A borrowerId \in UserIds :
                  processBorrowingOutcome(bookId, borrowerId).error # "none"

\* A book was borrowed, returned, and is on loan again, to another account.
C2_Witness ==
    \E bookId \in BookIds :
        \E i \in RecordsOfBook(bookId, {"returned"}), j \in RecordsOfBook(bookId, {"active"}) :
            /\ i < j
            /\ borrowingRecords[i].borrowerId # borrowingRecords[j].borrowerId

(***************************************************************************)
(* C3: no account holds more borrowed books than its maxBooksAllowed.      *)
(***************************************************************************)
C3_LoansWithinLimit ==
    \A userId \in DOMAIN users :
        Len(users[userId].borrowedBooks) <= users[userId].maxBooksAllowed

\* An account has borrowed as many books as it is allowed.
C3_Witness ==
    \E userId \in DOMAIN users :
        /\ Len(users[userId].borrowedBooks) = users[userId].maxBooksAllowed
        /\ Cardinality(RecordsWithStatus("active")) = users[userId].maxBooksAllowed

(***************************************************************************)
(* C4: a borrowing that throws changes nothing: the books (availability    *)
(* and history), the users (borrowed books and history) and the ledger     *)
(* with all its records are what they were before the call.                *)
(***************************************************************************)
C4_FailedBorrowingChangesNothing ==
    \A bookId \in ShelfBookIds, borrowerId \in ShelfUserIds :
        LET out == processBorrowingOutcome(bookId, borrowerId) IN
        out.error # "none" => LeavesAllUnchanged(out)

\* An account holds three loans, its limit, and a fourth book, available
\* and unrestricted, is refused to it.
C4_Witness ==
    \E bookId \in DOMAIN books, borrowerId \in DOMAIN users :
        /\ Len(users[borrowerId].borrowedBooks) = 3
        /\ users[borrowerId].maxBooksAllowed = 3
        /\ books[bookId].isAvailable
        /\ processBorrowingOutcome(bookId, borrowerId).error = "MaxBooksLimitReached"

(***************************************************************************)
(* C5: a borrowing checks, in this order: book exists, account exists,     *)
(* book available, book not restricted, physical state acceptable,         *)
(* account authorized, account not suspended, account under its limit;     *)
(* the Error thrown is the one of the first check that fails (NotFound,    *)
(* NotFound, Conflict, Conflict, Conflict, Unauthorized, Unauthorized,     *)
(* LimitExceeded).                                                         *)
(***************************************************************************)
UnacceptablePhysicalStates == {"damaged", "lost", "in_repair"}

C5_FirstFailedCheck(bookId, borrowerId) ==
    IF bookId \notin DOMAIN books THEN "NotFound"
    ELSE IF borrowerId \notin DOMAIN users THEN "NotFound"
    ELSE IF ~books[bookId].isAvailable THEN "Conflict"
    ELSE IF books[bookId].isRestricted THEN "Conflict"
    ELSE IF books[bookId].physicalState \in UnacceptablePhysicalStates THEN "Conflict"
    ELSE IF ~users[borrowerId].isAuthorized THEN "Unauthorized"
    ELSE IF isSuspended(borrowerId) THEN "Unauthorized"
    ELSE IF Len(users[borrowerId].borrowedBooks) >= users[borrowerId].maxBooksAllowed
         THEN "LimitExceeded"
    ELSE "none"

C5_ChecksInStrictOrder ==
    \A bookId \in StaffBookIds, borrowerId \in UserIds :
        ErrorKind(processBorrowingOutcome(bookId, borrowerId).error)
            = C5_FirstFailedCheck(bookId, borrowerId)

(***************************************************************************)
(* C6: a borrowing of book e by account a that succeeds, followed by the   *)
(* return of e by a: the return succeeds, e is available again, e is no    *)
(* longer among the borrowed books of a, and the record the borrowing      *)
(* created has status RETURNED and a returnDate.                           *)
(***************************************************************************)
\* The return of bookId by borrowerId, called in the state the borrowing
\* has led to, where its record is the last one of the ledger.
C6_AfterReturn(bookId, borrowerId, recordId) ==
    LET out == processReturnOutcome(bookId, borrowerId) IN
    /\ out.error = "none"
    /\ out.books[bookId].isAvailable
    /\ bookId \notin Range(out.users[borrowerId].borrowedBooks)
    /\ out.borrowingRecords[recordId].status = "returned"
    /\ out.borrowingRecords[recordId].returnDate # NoDate
    /\ out.borrowingRecords[recordId].returnDate = now

C6_BorrowThenReturn ==
    [][\A bookId \in BookIds, borrowerId \in UserIds :
          (/\ processBorrowingOutcome(bookId, borrowerId).error = "none"
           /\ processBorrowing(bookId, borrowerId))
          => C6_AfterReturn(bookId, borrowerId, Len(borrowingRecords))']_vars

\* A round trip has been made: the book is available, its borrower holds
\* nothing, and the record of the loan is RETURNED with its returnDate.
C6_Witness ==
    \E i \in DOMAIN borrowingRecords :
        /\ borrowingRecords[i].status = "returned"
        /\ borrowingRecords[i].returnDate # NoDate
        /\ borrowingRecords[i].bookId \in DOMAIN books
        /\ books[borrowingRecords[i].bookId].isAvailable
        /\ users[borrowingRecords[i].borrowerId].borrowedBooks = <<>>

(***************************************************************************)
(* C7: a return of book e by account a while the ledger holds no open      *)
(* record (ACTIVE, EXTENDED or OVERDUE) of e and a throws NotFound and     *)
(* changes no book, no user and no record.                                 *)
(***************************************************************************)
C7_ReturnWithoutOpenLoan ==
    \A bookId \in BookIds, borrowerId \in UserIds :
        RecordsOfPair(bookId, borrowerId, {"active", "extended", "overdue"}) = {} =>
            LET out == processReturnOutcome(bookId, borrowerId) IN
            /\ ErrorKind(out.error) = "NotFound"
            /\ LeavesAllUnchanged(out)

\* The three cases at once: a book on loan to one account, returned
\* earlier by a second account, and a second book that nobody has borrowed.
C7_Witness ==
    \E b1 \in DOMAIN books, b2 \in DOMAIN books, u1 \in DOMAIN users, u2 \in DOMAIN users :
        /\ u1 # u2
        /\ RecordsOfPair(b1, u1, {"active"}) # {}
        /\ RecordsOfPair(b1, u2, {"returned"}) # {}
        /\ RecordsOfPair(b1, u2, {"active", "extended", "overdue"}) = {}
        /\ RecordsOfBook(b2, BorrowingStatus) = {}
        /\ processReturnOutcome(b1, u2).error = "NoActiveRecord"
        /\ processReturnOutcome(b2, u1).error = "NoActiveRecord"

(***************************************************************************)
(* C8: a borrowing by an account that is eligible but for its suspension   *)
(* throws Unauthorized and creates no record as long as                    *)
(* now < suspensionEndDate; the same call succeeds once now has passed     *)
(* suspensionEndDate.                                                      *)
(***************************************************************************)
\* Everything but the suspension allows the borrowing.
C8_OtherwiseEligible(bookId, borrowerId) ==
    /\ bookId \in DOMAIN books
    /\ borrowerId \in DOMAIN users
    /\ books[bookId].isAvailable
    /\ ~books[bookId].isRestricted
    /\ books[bookId].physicalState \notin UnacceptablePhysicalStates
    /\ users[borrowerId].isAuthorized
    /\ Len(users[borrowerId].borrowedBooks) < users[borrowerId].maxBooksAllowed

C8_SuspensionBlocksBorrowing ==
    \A bookId \in StaffBookIds, borrowerId \in UserIds :
        C8_OtherwiseEligible(bookId, borrowerId) =>
            LET out == processBorrowingOutcome(bookId, borrowerId) IN
            IF isSuspended(borrowerId)
            THEN /\ ErrorKind(out.error) = "Unauthorized"
                 /\ out.borrowingRecords = borrowingRecords
            ELSE out.error = "none"

(***************************************************************************)
(* C9: an account as registerUser has just created it borrows an           *)
(* available, unrestricted book at once; the call returns a record with    *)
(* status ACTIVE of this book and this account.                            *)
(***************************************************************************)
C9_NewAccountCanBorrow ==
    \A bookId \in DOMAIN books, borrowerId \in DOMAIN users :
        (/\ users[borrowerId] = NewBorrower
         /\ books[bookId].isAvailable
         /\ ~books[bookId].isRestricted)
        => LET out == processBorrowingOutcome(bookId, borrowerId)
               recordId == Len(borrowingRecords) + 1
           IN  /\ out.error = "none"
               /\ Len(out.borrowingRecords) = recordId
               /\ out.borrowingRecords[recordId].status = "active"
               /\ out.borrowingRecords[recordId].bookId = bookId
               /\ out.borrowingRecords[recordId].borrowerId = borrowerId

(***************************************************************************)
(* C10: a borrowing of a book whose physical state is DAMAGED, LOST or     *)
(* IN_REPAIR throws and creates no record; with the book available and     *)
(* unrestricted and the account eligible, the Error is a Conflict.         *)
(***************************************************************************)
C10_UnacceptableStateBlocksBorrowing ==
    \A bookId \in DOMAIN books, borrowerId \in UserIds :
        books[bookId].physicalState \in UnacceptablePhysicalStates =>
            LET out == processBorrowingOutcome(bookId, borrowerId) IN
            /\ out.error # "none"
            /\ out.borrowingRecords = borrowingRecords
            /\ (/\ borrowerId \in DOMAIN users
                /\ books[bookId].isAvailable
                /\ ~books[bookId].isRestricted
                /\ users[borrowerId].isAuthorized
                /\ ~isSuspended(borrowerId)
                /\ Len(users[borrowerId].borrowedBooks) < users[borrowerId].maxBooksAllowed)
               => ErrorKind(out.error) = "Conflict"

(***************************************************************************)
(* C11: a borrowing that succeeds, of a book whose category is not         *)
(* REFERENCE, creates a record whose borrowDate is today and whose dueDate *)
(* is borrowDate + 14 days.                                                *)
(***************************************************************************)
C11_DefaultCategoryDueDate ==
    \A bookId \in DOMAIN books, borrowerId \in DOMAIN users :
        LET out == processBorrowingOutcome(bookId, borrowerId)
            recordId == Len(borrowingRecords) + 1
        IN  (out.error = "none" /\ books[bookId].category # "reference") =>
                /\ Len(out.borrowingRecords) = recordId
                /\ out.borrowingRecords[recordId].borrowDate = now
                /\ out.borrowingRecords[recordId].dueDate
                       = out.borrowingRecords[recordId].borrowDate + 14 * DayLength

\* A book of an ordinary category was borrowed after day 0 and its record
\* still has the due date it was created with.
C11_Witness ==
    \E i \in DOMAIN borrowingRecords :
        /\ borrowingRecords[i].bookId \in DOMAIN books
        /\ books[borrowingRecords[i].bookId].category = "fiction"
        /\ borrowingRecords[i].borrowDate > 0
        /\ borrowingRecords[i].dueDate = borrowingRecords[i].borrowDate + 14 * DayLength

(***************************************************************************)
(* C12: a borrowing that succeeds, of a book whose category is REFERENCE,  *)
(* creates a record whose dueDate is borrowDate + 7 days.                  *)
(***************************************************************************)
C12_ReferenceCategoryDueDate ==
    \A bookId \in DOMAIN books, borrowerId \in DOMAIN users :
        LET out == processBorrowingOutcome(bookId, borrowerId)
            recordId == Len(borrowingRecords) + 1
        IN  (out.error = "none" /\ books[bookId].category = "reference") =>
                /\ out.borrowingRecords[recordId].borrowDate = now
                /\ out.borrowingRecords[recordId].dueDate
                       = out.borrowingRecords[recordId].borrowDate + 7 * DayLength

(***************************************************************************)
(* C13: the return of book e by account a applies to the open record of e  *)
(* and a whatever its status, ACTIVE, EXTENDED or OVERDUE: the call        *)
(* succeeds, the record becomes RETURNED with returnDate today, e is       *)
(* available and no longer among the borrowed books of a.                  *)
(***************************************************************************)
C13_ReturnFromAnyOpenStatus ==
    \A bookId \in DOMAIN books, borrowerId \in DOMAIN users :
        \A i \in RecordsOfPair(bookId, borrowerId, {"active", "extended", "overdue"}) :
            LET out == processReturnOutcome(bookId, borrowerId) IN
            /\ out.error = "none"
            /\ out.borrowingRecords[i].status = "returned"
            /\ out.borrowingRecords[i].returnDate = now
            /\ out.books[bookId].isAvailable
            /\ bookId \notin Range(out.users[borrowerId].borrowedBooks)

(***************************************************************************)
(* C14: RETURNED and CANCELLED are terminal.  No step changes the status   *)
(* of a record that is RETURNED or CANCELLED; a return, and an extension,  *)
(* asked for a book and an account whose records are all RETURNED or       *)
(* CANCELLED throws and changes nothing; an extension asked for a record   *)
(* that is OVERDUE throws and changes nothing.                             *)
(***************************************************************************)
TerminalStatuses == {"returned", "cancelled"}

C14_StatusKept ==
    \A i \in DOMAIN borrowingRecords :
        borrowingRecords[i].status \in TerminalStatuses =>
            /\ i \in DOMAIN borrowingRecords'
            /\ borrowingRecords'[i].status = borrowingRecords[i].status

C14_AttemptsThrow ==
    \A bookId \in DOMAIN books, borrowerId \in DOMAIN users :
        LET return == processReturnOutcome(bookId, borrowerId)
            extend == extendBorrowingPeriodOutcome(borrowerId, bookId, 7)
        IN  /\ \A i \in RecordsOfPair(bookId, borrowerId, TerminalStatuses) :
                  /\ return.borrowingRecords[i] = borrowingRecords[i]
                  /\ extend.borrowingRecords[i] = borrowingRecords[i]
            /\ (/\ RecordsOfPair(bookId, borrowerId, TerminalStatuses) # {}
                /\ RecordsOfPair(bookId, borrowerId, BorrowingStatus \ TerminalStatuses) = {})
               => /\ return.error # "none"
                  /\ LeavesAllUnchanged(return)
                  /\ extend.error # "none"
                  /\ LeavesAllUnchanged(extend)
            /\ RecordsOfPair(bookId, borrowerId, {"overdue"}) # {}
               => /\ extend.error # "none"
                  /\ LeavesAllUnchanged(extend)

C14_TerminalStatuses == []C14_AttemptsThrow /\ [][C14_StatusKept]_vars

\* The ledger holds a RETURNED record and a CANCELLED record, of two
\* accounts, neither account has another record of the book, and a third
\* record is OVERDUE.
C14_Witness ==
    \E i \in RecordsWithStatus("returned"), j \in RecordsWithStatus("cancelled") :
        /\ RecordsWithStatus("overdue") # {}
        /\ borrowingRecords[i].borrowerId # borrowingRecords[j].borrowerId
        /\ borrowingRecords[i].bookId \in DOMAIN books
        /\ borrowingRecords[j].bookId \in DOMAIN books
        /\ RecordsOfPair(borrowingRecords[i].bookId, borrowingRecords[i].borrowerId,
                         BorrowingStatus) = {i}
        /\ RecordsOfPair(borrowingRecords[j].bookId, borrowingRecords[j].borrowerId,
                         BorrowingStatus) = {j}

(***************************************************************************)
(* C15: an extension asked for a record that is ACTIVE or EXTENDED         *)
(* returns true exactly when extensionCount < MAX_EXTENSION_COUNT and      *)
(* today is not after dueDate, and then adds 1 to extensionCount, adds the *)
(* days to dueDate and sets the status EXTENDED; otherwise it returns      *)
(* false, without an Error, and leaves dueDate and extensionCount as they  *)
(* are.                                                                    *)
(***************************************************************************)
C15_ExtendWithinLimit ==
    \A bookId \in DOMAIN books, borrowerId \in DOMAIN users, days \in ExtensionDays :
        \A i \in RecordsOfPair(bookId, borrowerId, {"active", "extended"}) :
            LET record == borrowingRecords[i]
                out == extendBorrowingPeriodOutcome(borrowerId, bookId, days)
            IN  IF record.extensionCount < MAX_EXTENSION_COUNT /\ now <= record.dueDate
                THEN /\ out.error = "none"
                     /\ out.result = "true"
                     /\ out.borrowingRecords[i].extensionCount = record.extensionCount + 1
                     /\ out.borrowingRecords[i].dueDate = record.dueDate + days
                     /\ out.borrowingRecords[i].status = "extended"
                ELSE /\ out.error = "none"
                     /\ out.result = "false"
                     /\ out.borrowingRecords[i].extensionCount = record.extensionCount
                     /\ out.borrowingRecords[i].dueDate = record.dueDate

C17_OverdueSortedByDueDate ==
    LET result == getOverdueBorrowingsOutcome(borrowingRecords, now).result IN
    \A k \in DOMAIN result, l \in DOMAIN result :
        borrowingRecords[result[k]].dueDate < borrowingRecords[result[l]].dueDate
            => k < l

(***************************************************************************)
(* C18: two scans for overdue records, one after the other on the same     *)
(* day: neither throws, both return the same records, and the second one   *)
(* leaves every record as the first one left it.                           *)
(***************************************************************************)
C18_ScanTwice ==
    LET first == getOverdueBorrowingsOutcome(borrowingRecords, now)
        second == getOverdueBorrowingsOutcome(first.borrowingRecords, now)
    IN  /\ first.error = "none"
        /\ second.error = "none"
        /\ Range(second.result) = Range(first.result)
        /\ second.borrowingRecords = first.borrowingRecords

\* Two records are overdue on the day of the scans.
C18_Witness ==
    /\ Len(getOverdueBorrowingsOutcome(borrowingRecords, now).result) = 2
    /\ now > 0

(***************************************************************************)
(* C19: over all the runs of sendDueDateReminders, a record is reminded of *)
(* at most once for each number of days of REMINDER_DAYS_BEFORE_DUE: no    *)
(* two lines of the console are written for the same record and the same   *)
(* daysUntilDue, also when the reminders are run again while daysUntilDue  *)
(* has not changed.                                                        *)
(***************************************************************************)
C19_OneReminderPerRecordAndOffset ==
    \A k \in DOMAIN console, l \in DOMAIN console :
        (/\ console[k].recordId = console[l].recordId
         /\ console[k].daysUntilDue = console[l].daysUntilDue)
        => k = l

(***************************************************************************)
(* C20: addBook of an id that is in the catalogue throws DuplicateKey;     *)
(* removeBook throws NotFound for an id that is not in the catalogue and   *)
(* Conflict for a book with an open record; each of these calls leaves the *)
(* books, the users and the ledger as they are, and the book of an open    *)
(* record is always in the catalogue.                                      *)
(***************************************************************************)
C20_CatalogGuards ==
    /\ \A bookId \in BookIds, category \in BookCategory :
          LET add == addBookOutcome(bookId, category)
              remove == removeBookOutcome(bookId)
          IN  /\ bookId \in DOMAIN books
                 => /\ ErrorKind(add.error) = "DuplicateKey"
                    /\ LeavesAllUnchanged(add)
              /\ bookId \notin DOMAIN books
                 => /\ ErrorKind(remove.error) = "NotFound"
                    /\ LeavesAllUnchanged(remove)
              /\ (/\ bookId \in DOMAIN books
                  /\ RecordsOfBook(bookId, {"active", "extended", "overdue"}) # {})
                 => /\ ErrorKind(remove.error) = "Conflict"
                    /\ LeavesAllUnchanged(remove)
    /\ \A i \in DOMAIN borrowingRecords :
          borrowingRecords[i].status \in {"active", "extended", "overdue"}
              => borrowingRecords[i].bookId \in DOMAIN books

\* One book is on loan, after an earlier loan of it was returned, and the
\* other id is not in the catalogue.
C20_Witness ==
    \E b1 \in BookIds, b2 \in BookIds :
        /\ b1 \in DOMAIN books
        /\ RecordsOfBook(b1, {"active"}) # {}
        /\ RecordsOfBook(b1, {"returned"}) # {}
        /\ b2 \notin DOMAIN books
        /\ addBookOutcome(b1, "fiction").error = "BookAlreadyExists"
        /\ removeBookOutcome(b1).error = "BookCurrentlyBorrowed"
        /\ removeBookOutcome(b2).error = "BookNotFound"

(***************************************************************************)
(* C21: a call of restrictBook that returns normally leaves the book       *)
(* restricted, and leaves the ledger and the borrowers as they were, so    *)
(* that an open loan of the book is untouched.                             *)
(***************************************************************************)
C21_RestrictSetsFlag ==
    \A bookId \in DOMAIN books, reason \in RestrictionReasons :
        LET out == restrictBookOutcome(bookId, reason) IN
        out.error = "none" =>
            /\ out.books[bookId].isRestricted
            /\ out.borrowingRecords = borrowingRecords
            /\ out.users = users

(***************************************************************************)
(* C22: canBorrow() of an account is true exactly when the account is      *)
(* authorized, is not suspended and holds fewer books than                 *)
(* maxBooksAllowed; it is false for every account that is not authorized.  *)
(***************************************************************************)
C22_CanBorrowMeansEligible ==
    \A u \in DOMAIN users :
        canBorrow(u) <=> /\ users[u].isAuthorized
                         /\ ~isSuspended(u)
                         /\ Len(users[u].borrowedBooks) < users[u].maxBooksAllowed

(***************************************************************************)
(* C23: a return after the due date leaves on the returned record a late   *)
(* fee of min((lateDays - 1) * 0.50, 50) euros, lateDays being the days    *)
(* from the due date to the return.                                        *)
(***************************************************************************)
C23_LateFeeOnReturn ==
    \A bookId \in DOMAIN books, borrowerId \in DOMAIN users :
        LET out == processReturnOutcome(bookId, borrowerId)
            activeRecord == findActiveRecord(bookId, borrowerId)
        IN  (out.error = "none" /\ now > borrowingRecords[activeRecord].dueDate) =>
                LET returned == out.borrowingRecords[activeRecord] IN
                /\ "lateFee" \in DOMAIN returned
                /\ returned.lateFee =
                       calculateLateFee(Ceil(now - borrowingRecords[activeRecord].dueDate,
                                             DayLength))

C25_FailedAccountCallsKeepBorrowedBooks ==
    \A u \in DOMAIN users, b \in AccountBookIds :
        /\ returnBookOutcome(u, b).error # "none" =>
               returnBookOutcome(u, b).users[u].borrowedBooks = users[u].borrowedBooks
        /\ borrowBookOutcome(u, b).error # "none" =>
               borrowBookOutcome(u, b).users[u].borrowedBooks = users[u].borrowedBooks
        /\ \A days \in ExtensionDays :
               extendBorrowingPeriodOutcome(u, b, days).error # "none" =>
                   extendBorrowingPeriodOutcome(u, b, days).users[u].borrowedBooks =
                       users[u].borrowedBooks

(***************************************************************************)
(* C29: the borrowedBooks of every account hold, each once, exactly the    *)
(* books of the ACTIVE records that name the account, and so an account    *)
(* never has more ACTIVE records than maxBooksAllowed.                     *)
(***************************************************************************)
C29_BorrowedBooksAreOpenLedgerRecords ==
    \A u \in DOMAIN users :
        /\ \A b \in Range(users[u].borrowedBooks) :
               Occurrences(users[u].borrowedBooks, b) = 1
        /\ Range(users[u].borrowedBooks) =
               {borrowingRecords[i].bookId : i \in ActiveRecordsOf(u)}
        /\ Cardinality(ActiveRecordsOf(u)) <= users[u].maxBooksAllowed

(***************************************************************************)
(* C26: the scan for overdue records leaves every record that was ACTIVE   *)
(* or EXTENDED, past its due date and not returned with the status         *)
(* OVERDUE, and leaves every other record as it was.                       *)
(***************************************************************************)
C26_SweepMarksOverdue ==
    LET out == getOverdueBorrowingsOutcome(borrowingRecords, now) IN
    \A i \in DOMAIN borrowingRecords :
        IF /\ borrowingRecords[i].status \in {"active", "extended"}
           /\ now > borrowingRecords[i].dueDate
           /\ borrowingRecords[i].returnDate = NoDate
        THEN out.borrowingRecords[i] = [borrowingRecords[i] EXCEPT !.status = "overdue"]
        ELSE out.borrowingRecords[i] = borrowingRecords[i]

(***************************************************************************)
(* C27: a run of sendDueDateReminders writes a line for a record exactly   *)
(* when the record is ACTIVE, is not returned, and the days until its due  *)
(* date, rounded up to whole days, are 3 or 1; it writes one line for such *)
(* a record, with that number of days, and none for a returned record or   *)
(* for any other number of days.                                           *)
(***************************************************************************)
C27_RemindersExactlyForDueSoon ==
    LET lines == ReminderLines(borrowingRecords, now) IN
    \A i \in DOMAIN borrowingRecords :
        LET linesOfRecord == {k \in DOMAIN lines : lines[k].recordId = i}
            untilDue == borrowingRecords[i].dueDate - now
            dueSoon == {d \in {3, 1} : /\ (d - 1) * DayLength < untilDue
                                       /\ untilDue <= d * DayLength}
            open == /\ borrowingRecords[i].status = "active"
                    /\ borrowingRecords[i].returnDate = NoDate
        IN  /\ linesOfRecord # {} <=> (open /\ dueSoon # {})
            /\ Cardinality(linesOfRecord) <= 1
            /\ \A k \in linesOfRecord :
                   /\ lines[k].daysUntilDue \in dueSoon
                   /\ lines[k].borrowerId = borrowingRecords[i].borrowerId

\* A run has written a line for an ACTIVE record that is due in two days
\* and a half, which count as 3, and none for the returned record before it,
\* whose due date is as near.
C27_Witness ==
    \E i \in DOMAIN borrowingRecords, j \in DOMAIN borrowingRecords :
        /\ borrowingRecords[i].status = "active"
        /\ borrowingRecords[i].dueDate - now = 3 * DayLength - 1
        /\ borrowingRecords[j].status = "returned"
        /\ Ceil(borrowingRecords[j].dueDate - now, DayLength) \in REMINDER_DAYS_BEFORE_DUE
        /\ console # <<>>
        /\ console[Len(console)] = [recordId |-> i, daysUntilDue |-> 3,
                                    borrowerId |-> borrowingRecords[i].borrowerId]
        /\ \A k \in DOMAIN console : console[k].recordId # j

(***************************************************************************)
(* C28: no step takes a record out of the ledger or changes the bookId,    *)
(* the borrowerId or the borrowDate of a record; the ledger grows by one   *)
(* record in a step that is a successful processBorrowing and keeps its    *)
(* length in every other step, the removal of the book of a record         *)
(* included.                                                               *)
(***************************************************************************)
C28_LedgerStep ==
    /\ \A i \in DOMAIN borrowingRecords :
          /\ i \in DOMAIN borrowingRecords'
          /\ borrowingRecords'[i].bookId = borrowingRecords[i].bookId
          /\ borrowingRecords'[i].borrowerId = borrowingRecords[i].borrowerId
          /\ borrowingRecords'[i].borrowDate = borrowingRecords[i].borrowDate
    /\ Len(borrowingRecords') \in {Len(borrowingRecords), Len(borrowingRecords) + 1}
    /\ (Len(borrowingRecords') = Len(borrowingRecords) + 1) =>
          \E bookId \in DOMAIN books, borrowerId \in DOMAIN users :
              /\ BorrowingError(bookId, borrowerId) = "none"
              /\ books' = processBorrowingOutcome(bookId, borrowerId).books
              /\ users' = processBorrowingOutcome(bookId, borrowerId).users
              /\ borrowingRecords' =
                     processBorrowingOutcome(bookId, borrowerId).borrowingRecords
    /\ (DOMAIN books' # DOMAIN books) => borrowingRecords' = borrowingRecords

C28_LedgerOnlyGrows == [][C28_LedgerStep]_vars

\* The book of a returned record has been removed from the catalogue, and
\* the record is in the ledger, next to a record made after it.
C28_Witness ==
    \E i \in DOMAIN borrowingRecords :
        /\ borrowingRecords[i].bookId \notin DOMAIN books
        /\ borrowingRecords[i].status = "returned"
        /\ i < Len(borrowingRecords)

(***************************************************************************)
(* C30: whenever the ledger holds an ACTIVE record of book e and account   *)
(* a, processReturn(e, a) succeeds and leaves e available and the record   *)
(* RETURNED, whether or not a is authorized or suspended and e restricted; *)
(* and every book that is not available has such a record, so that no book *)
(* stays unavailable for ever.                                             *)
(***************************************************************************)
C30_OpenLoanCanBeClosed ==
    /\ \A i \in RecordsWithStatus("active") :
          LET e == borrowingRecords[i].bookId
              a == borrowingRecords[i].borrowerId
              out == processReturnOutcome(e, a)
          IN  /\ out.error = "none"
              /\ out.books[e].isAvailable
              /\ out.borrowingRecords[findActiveRecord(e, a)].status = "returned"
              /\ RecordsOfPair(e, a, {"active"}) = {i}
    /\ \A e \in DOMAIN books :
          ~books[e].isAvailable => RecordsOfBook(e, {"active"}) # {}

\* A book on loan has been restricted and is damaged, and the account that
\* holds it is no longer authorized and is suspended.
C30_Witness ==
    \E i \in RecordsWithStatus("active") :
        LET e == borrowingRecords[i].bookId
            a == borrowingRecords[i].borrowerId
        IN  /\ books[e].isRestricted
            /\ books[e].physicalState = "damaged"
            /\ ~users[a].isAuthorized
            /\ isSuspended(a)
            /\ processReturnOutcome(e, a).error = "none"

====
